---- MODULE Spec2Model ----
(***************************************************************************)
(* A model of the G-code importer of code/AssetLib/Gcode/GcodeLoader.cpp.  *)
(*                                                                         *)
(* The importer object holds m_absolute, m_pos and m_offset.               *)
(* ReadGcodeFile walks the text buffer line by line; a line that starts    *)
(* with G is handed to ReadGcodeMove, which updates the members and        *)
(* classifies the move; an Extrusion appends two points to `positions`     *)
(* and one index pair to `indices`, a Travel calls CreateMesh, and the     *)
(* end of the buffer calls CreateMesh once more.                           *)
(*                                                                         *)
(* The buffer is modelled after tokenisation: one element per physical     *)
(* line, holding whether the line starts with the command letter, the      *)
(* command code read by strtoul10 and the GcodeLine (x, y, z, e) read by   *)
(* ReadGcodeLine.  Coordinates are small integers, on which the float      *)
(* arithmetic of the code is exact.                                        *)
(*                                                                         *)
(* The text specifications (SpecText, SpecScan) model the tokenisation     *)
(* too: there the buffer is the sequence of characters, the cursor is a    *)
(* character index, and the while loop of ReadGcodeLine takes one step per *)
(* iteration.  Both levels share Move and Finalize, the body of the G      *)
(* branch of ReadGcodeFile and its end.                                    *)
(***************************************************************************)
EXTENDS Integers, Sequences, FiniteSets, TLC

VARIABLES
    m_absolute,   \* GcodeImporter::m_absolute
    m_pos,        \* GcodeImporter::m_pos (logical position)
    m_offset,     \* GcodeImporter::m_offset
    buffer,       \* the lines of the text handed to ReadGcodeFile
    sz,           \* the cursor: index of the next line of buffer to read
    positions,    \* ReadGcodeFile's local std::vector<aiVector3D> positions
    indices,      \* ReadGcodeFile's local std::vector<int> indices
    meshes,       \* ReadGcodeFile's local std::vector<aiMesh *> meshes
    pc,           \* "idle" (constructed), "reading" (in the while loop), "done"
    hist,         \* history: for each element of positions, the line that
                  \* pushed it and the head's world position at that moment
    meshHist,     \* history: for each mesh, the hist of its vertices
    trace,        \* history: for each line read, the members before it was
                  \* read and the classification it was given
    scenes,       \* for each InternReadFile that has returned: the text it
                  \* read, the meshes of its pScene and the members it left
    line          \* the locals of ReadGcodeMove and ReadGcodeLine while a
                  \* command is read character by character: g, v, comment

vars == <<m_absolute, m_pos, m_offset, buffer, sz, positions, indices, meshes,
          pc, hist, meshHist, trace, scenes, line>>

\* ------------------------------------------------------------------ bounds

\* Longest input of the general specification, in lines.
MaxLines == 3

\* Number of files one importer reads in the re-read specification.
MaxParses == 2

\* Longest input of the scan specification, in characters.
MaxChars == 4

\* ------------------------------------------------------------- aiVector3D

Vec(a, b, c) == [x |-> a, y |-> b, z |-> c]

Zero == Vec(0, 0, 0)

VAdd(a, b) == Vec(a.x + b.x, a.y + b.y, a.z + b.z)

VSub(a, b) == Vec(a.x - b.x, a.y - b.y, a.z - b.z)

\* -------------------------------------------------------------- GcodeLine

\* A field of GcodeLine is NAN (the tag was not read) or holds one number.
NAN == <<>>

Num(n) == <<n>>

HasX(v) == v.x # NAN

HasY(v) == v.y # NAN

HasZ(v) == v.z # NAN

HasE(v) == v.e # NAN

GetX(v, f) == IF HasX(v) THEN v.x[1] ELSE f

GetY(v, f) == IF HasY(v) THEN v.y[1] ELSE f

GetZ(v, f) == IF HasZ(v) THEN v.z[1] ELSE f

GetE(v, f) == IF HasE(v) THEN v.e[1] ELSE f

\* ---------------------------------------------------------- GcodeImporter

\* Mutant of ToAbsolutePosition: the offset is dropped.
ToAbsolutePosition_NoOffset(offset, pos) == pos

ToLogicalPosition(offset, pos) == VSub(pos, offset)

ToAbsolutePosition(offset, pos) == VAdd(offset, pos)

\* Mutant of MoveAbsolute: an absent axis reads as 0 instead of keeping.
MoveAbsolute_AbsentZero(mpos, v) ==
    Vec(GetX(v, 0), GetY(v, 0), GetZ(v, 0))

\* case 0 / case 1 with m_absolute: present axes replace, absent axes keep.
MoveAbsolute(mpos, v) ==
    Vec(GetX(v, mpos.x), GetY(v, mpos.y), GetZ(v, mpos.z))

\* case 7, and case 0 / case 1 falling through: present axes are added.
MoveRelative(mpos, v) ==
    Vec(mpos.x + GetX(v, 0), mpos.y + GetY(v, 0), mpos.z + GetZ(v, 0))

\* Mutant of Reset92: with some tag present, every axis is reset, an absent
\* one to 0.
Reset92_AllAxes(mpos, moff, v) ==
    IF ~HasX(v) /\ ~HasY(v) /\ ~HasZ(v) /\ ~HasE(v)
    THEN [m_pos |-> Zero, m_offset |-> ToAbsolutePosition(moff, mpos)]
    ELSE LET abs == ToAbsolutePosition(moff, mpos)
             p   == Vec(GetX(v, 0), GetY(v, 0), GetZ(v, 0))
         IN  [m_pos |-> p, m_offset |-> Vec(abs.x - p.x, abs.y - p.y, abs.z - p.y)]

\* case 92: the members m_pos and m_offset after the reset.  The three ifs
\* run in the order x, y, z, so the z branch reads the y it may just have set.
Reset92(mpos, moff, v) ==
    IF ~HasX(v) /\ ~HasY(v) /\ ~HasZ(v) /\ ~HasE(v)
    THEN [m_pos |-> Zero, m_offset |-> ToAbsolutePosition(moff, mpos)]
    ELSE LET abs == ToAbsolutePosition(moff, mpos)
             px  == IF HasX(v) THEN GetX(v, 0) ELSE mpos.x
             ox  == IF HasX(v) THEN abs.x - px ELSE moff.x
             py  == IF HasY(v) THEN GetY(v, 0) ELSE mpos.y
             oy  == IF HasY(v) THEN abs.y - py ELSE moff.y
             pz  == IF HasZ(v) THEN GetZ(v, 0) ELSE mpos.z
             oz  == IF HasZ(v) THEN abs.z - py ELSE moff.z
         IN  [m_pos |-> Vec(px, py, pz), m_offset |-> Vec(ox, oy, oz)]

\* Mutant of Classify: >= for >, so E = 0 and an absent E count as deposition.
Classify_NonNegative(v) ==
    IF GetE(v, 0) >= 0 THEN "Extrusion"
    ELSE IF HasX(v) \/ HasY(v) \/ HasZ(v) THEN "Travel"
    ELSE "None"

\* The tail of ReadGcodeMove, reached by codes 0, 1 and 7 only.
Classify(v) ==
    IF GetE(v, 0) > 0 THEN "Extrusion"
    ELSE IF HasX(v) \/ HasY(v) \/ HasZ(v) THEN "Travel"
    ELSE "None"

\* Mutant of ReadGcodeMove: case 92 ends with break instead of falling
\* through to the return, so a reset is classified by its fields.
ReadGcodeMove_ResetBreaks(abs, mpos, moff, pos, g, v) ==
    CASE g \in {0, 1} /\ abs ->
           [move |-> Classify(v), pos |-> MoveAbsolute(mpos, v),
            m_absolute |-> abs, m_pos |-> mpos, m_offset |-> moff]
      [] (g \in {0, 1} /\ ~abs) \/ g = 7 ->
           [move |-> Classify(v), pos |-> MoveRelative(mpos, v),
            m_absolute |-> abs, m_pos |-> mpos, m_offset |-> moff]
      [] g = 90 ->
           [move |-> "None", pos |-> pos,
            m_absolute |-> TRUE, m_pos |-> mpos, m_offset |-> moff]
      [] g = 91 ->
           [move |-> "None", pos |-> pos,
            m_absolute |-> FALSE, m_pos |-> mpos, m_offset |-> moff]
      [] g = 92 ->
           LET r == Reset92(mpos, moff, v)
           IN  [move |-> Classify(v), pos |-> pos,
                m_absolute |-> abs, m_pos |-> r.m_pos, m_offset |-> r.m_offset]
      [] OTHER ->
           [move |-> "None", pos |-> pos,
            m_absolute |-> abs, m_pos |-> mpos, m_offset |-> moff]

\* Mutant of ReadGcodeMove: case 92 also writes the reset position into pos,
\* so the reset survives m_pos = pos in ReadGcodeFile.
ReadGcodeMove_ResetWritesPos(abs, mpos, moff, pos, g, v) ==
    CASE g \in {0, 1} /\ abs ->
           [move |-> Classify(v), pos |-> MoveAbsolute(mpos, v),
            m_absolute |-> abs, m_pos |-> mpos, m_offset |-> moff]
      [] (g \in {0, 1} /\ ~abs) \/ g = 7 ->
           [move |-> Classify(v), pos |-> MoveRelative(mpos, v),
            m_absolute |-> abs, m_pos |-> mpos, m_offset |-> moff]
      [] g = 90 ->
           [move |-> "None", pos |-> pos,
            m_absolute |-> TRUE, m_pos |-> mpos, m_offset |-> moff]
      [] g = 91 ->
           [move |-> "None", pos |-> pos,
            m_absolute |-> FALSE, m_pos |-> mpos, m_offset |-> moff]
      [] g = 92 ->
           LET r == Reset92(mpos, moff, v)
           IN  [move |-> "None", pos |-> r.m_pos,
                m_absolute |-> abs, m_pos |-> r.m_pos, m_offset |-> r.m_offset]
      [] OTHER ->
           [move |-> "None", pos |-> pos,
            m_absolute |-> abs, m_pos |-> mpos, m_offset |-> moff]

\* Mutant of ReadGcodeMove: the default case is missing, so an unknown code
\* is handled as a relative move.
ReadGcodeMove_NoDefault(abs, mpos, moff, pos, g, v) ==
    CASE g \in {0, 1} /\ abs ->
           [move |-> Classify(v), pos |-> MoveAbsolute(mpos, v),
            m_absolute |-> abs, m_pos |-> mpos, m_offset |-> moff]
      [] g = 90 ->
           [move |-> "None", pos |-> pos,
            m_absolute |-> TRUE, m_pos |-> mpos, m_offset |-> moff]
      [] g = 91 ->
           [move |-> "None", pos |-> pos,
            m_absolute |-> FALSE, m_pos |-> mpos, m_offset |-> moff]
      [] g = 92 ->
           LET r == Reset92(mpos, moff, v)
           IN  [move |-> "None", pos |-> pos,
                m_absolute |-> abs, m_pos |-> r.m_pos, m_offset |-> r.m_offset]
      [] OTHER ->
           [move |-> Classify(v), pos |-> MoveRelative(mpos, v),
            m_absolute |-> abs, m_pos |-> mpos, m_offset |-> moff]

\* ReadGcodeMove(sz, pos) on a line with code g and fields v: the value
\* returned, the caller's pos (passed by reference) and the three members.
ReadGcodeMove(abs, mpos, moff, pos, g, v) ==
    CASE g \in {0, 1} /\ abs ->
           [move |-> Classify(v), pos |-> MoveAbsolute(mpos, v),
            m_absolute |-> abs, m_pos |-> mpos, m_offset |-> moff]
      [] (g \in {0, 1} /\ ~abs) \/ g = 7 ->
           [move |-> Classify(v), pos |-> MoveRelative(mpos, v),
            m_absolute |-> abs, m_pos |-> mpos, m_offset |-> moff]
      [] g = 90 ->
           [move |-> "None", pos |-> pos,
            m_absolute |-> TRUE, m_pos |-> mpos, m_offset |-> moff]
      [] g = 91 ->
           [move |-> "None", pos |-> pos,
            m_absolute |-> FALSE, m_pos |-> mpos, m_offset |-> moff]
      [] g = 92 ->
           LET r == Reset92(mpos, moff, v)
           IN  [move |-> "None", pos |-> pos,
                m_absolute |-> abs, m_pos |-> r.m_pos, m_offset |-> r.m_offset]
      [] OTHER ->
           [move |-> "None", pos |-> pos,
            m_absolute |-> abs, m_pos |-> mpos, m_offset |-> moff]

\* ------------------------------------------------- ReadGcodeFile's locals

\* Mutant of PushPositions: a move that continues a run pushes its end
\* point only, so a run becomes a polyline with shared points.
PushPositions_EndOnly(pts, mpos, pos) ==
    IF pts = <<>> THEN <<mpos, pos>> ELSE Append(pts, pos)

\* positions.push_back(m_pos); positions.push_back(pos);
PushPositions(pts, mpos, pos) == pts \o <<mpos, pos>>

\* Mutant of PushIndices: size > 2 for size > 1, so the first move of a run
\* gets no index pair.
PushIndices_OffByOne(idx, size) ==
    IF size > 2 THEN idx \o <<size - 2, size - 1>> ELSE idx

\* size = positions.size(); if (size > 1) push size - 2 and size - 1.
PushIndices(idx, size) ==
    IF size > 1 THEN idx \o <<size - 2, size - 1>> ELSE idx

\* pMesh->mVertices[i] = ToAbsolutePosition(positions[i]), with the m_offset
\* the importer holds when CreateMesh runs.
MeshVertices(pts, moff) ==
    [i \in 1..Len(pts) |-> ToAbsolutePosition(moff, pts[i])]

\* mNumFaces = indices.size() / 2; face i holds indices[2i] and indices[2i+1]
\* (0-based in the code, so elements 2i-1 and 2i of the sequence).
MeshFaces(idx) ==
    [i \in 1..(Len(idx) \div 2) |-> <<idx[2 * i - 1], idx[2 * i]>>]

\* The aiMesh built by the CreateMesh lambda; mName is meshes.size().
NewMesh(pts, idx, moff, n) ==
    [mName |-> n, mVertices |-> MeshVertices(pts, moff), mFaces |-> MeshFaces(idx)]

\* Mutant of CreateMesh: the positions.empty() test is missing.
CreateMesh_NoEmptyTest(pts, idx, ms, moff) ==
    [positions |-> <<>>, indices |-> <<>>,
     meshes |-> Append(ms, NewMesh(pts, idx, moff, Len(ms)))]

\* Mutant of CreateMesh: positions and indices are not cleared.
CreateMesh_NoClear(pts, idx, ms, moff) ==
    IF pts = <<>>
    THEN [positions |-> pts, indices |-> idx, meshes |-> ms]
    ELSE [positions |-> pts, indices |-> idx,
          meshes |-> Append(ms, NewMesh(pts, idx, moff, Len(ms)))]

\* The CreateMesh lambda: nothing when positions is empty, otherwise one
\* more mesh, and positions and indices cleared.
CreateMesh(pts, idx, ms, moff) ==
    IF pts = <<>>
    THEN [positions |-> pts, indices |-> idx, meshes |-> ms]
    ELSE [positions |-> <<>>, indices |-> <<>>,
          meshes |-> Append(ms, NewMesh(pts, idx, moff, Len(ms)))]

\* ------------------------------------------------------------------ input

\* A line that starts with G followed by code g, and its tags.
GLine(g, x, y, z, e) ==
    [isG |-> TRUE, g |-> g, v |-> [x |-> x, y |-> y, z |-> z, e |-> e]]

\* A line whose first character is not G or g (an M command, a comment).
OtherLine ==
    [isG |-> FALSE, g |-> 0, v |-> [x |-> NAN, y |-> NAN, z |-> NAN, e |-> NAN]]

SeqsUpTo(S, n) == UNION {[1..k -> S] : k \in 0..n}

\* The lines of the general specification: deposition, travel and no-op
\* moves in both modes, the mode switches, resets with and without axes, an
\* unknown code and a line that is no command.
Lines ==
    { GLine(1, Num(1), NAN, NAN, Num(1)),      \* G1 X1 E1
      GLine(1, NAN, Num(2), NAN, Num(1)),      \* G1 Y2 E1
      GLine(1, NAN, NAN, NAN, Num(1)),         \* G1 E1
      GLine(7, NAN, NAN, Num(1), Num(2)),      \* G7 Z1 E2
      GLine(0, Num(2), NAN, NAN, NAN),         \* G0 X2
      GLine(1, NAN, Num(1), NAN, Num(0)),      \* G1 Y1 E0
      GLine(1, NAN, NAN, NAN, NAN),            \* G1
      GLine(90, NAN, NAN, NAN, NAN),           \* G90
      GLine(91, NAN, NAN, NAN, NAN),           \* G91
      GLine(92, NAN, NAN, NAN, NAN),           \* G92
      GLine(92, Num(0), NAN, NAN, NAN),        \* G92 X0
      GLine(92, NAN, Num(1), Num(2), NAN),     \* G92 Y1 Z2
      GLine(92, NAN, NAN, NAN, Num(0)),        \* G92 E0
      GLine(28, Num(1), NAN, NAN, Num(1)),     \* G28 X1 E1
      OtherLine }

Inputs == SeqsUpTo(Lines, MaxLines)

\* ---------------------------------------------------------------- actions

\* GcodeLine v as constructed, g and comment before a command is read, and
\* (history) the tags read so far with whether a number follows each.
NoLine ==
    [g |-> 0, v |-> [x |-> NAN, y |-> NAN, z |-> NAN, e |-> NAN],
     comment |-> FALSE, tags |-> <<>>]

Init ==
    /\ m_absolute = TRUE
    /\ m_pos = Zero
    /\ m_offset = Zero
    /\ buffer = <<>>
    /\ sz = 1
    /\ positions = <<>>
    /\ indices = <<>>
    /\ meshes = <<>>
    /\ pc = "idle"
    /\ hist = <<>>
    /\ meshHist = <<>>
    /\ trace = <<>>
    /\ scenes = <<>>
    /\ line = NoLine

\* The entry of trace for the line being read.
Seen(move) ==
    [move |-> move, m_absolute |-> m_absolute, m_pos |-> m_pos,
     m_offset |-> m_offset, line |-> line]

\* InternReadFile hands the text to ReadGcodeFile, whose locals start empty;
\* the importer is either newly constructed or has returned from a read, and
\* its members are not touched.
InternReadFile(buf) ==
    /\ pc \in {"idle", "done"}
    /\ buffer' = buf
    /\ sz' = 1
    /\ positions' = <<>>
    /\ indices' = <<>>
    /\ meshes' = <<>>
    /\ pc' = "reading"
    /\ hist' = <<>>
    /\ meshHist' = <<>>
    /\ trace' = <<>>
    /\ UNCHANGED <<m_absolute, m_pos, m_offset, scenes, line>>

\* The body of the G branch of the while loop of ReadGcodeFile for a command
\* with code g and fields v: pos = m_pos, ReadGcodeMove, then the stroke
\* buffers, then m_pos = pos.
Move(g, v) ==
    LET r  == ReadGcodeMove(m_absolute, m_pos, m_offset, m_pos, g, v)
        cm == CreateMesh(positions, indices, meshes, r.m_offset)
    IN  /\ m_absolute' = r.m_absolute
        /\ m_offset' = r.m_offset
        /\ m_pos' = r.pos
        /\ trace' = Append(trace, Seen(r.move))
        /\ CASE r.move = "Extrusion" ->
                  /\ positions' = PushPositions(positions, r.m_pos, r.pos)
                  /\ indices' = PushIndices(indices, Len(positions'))
                  /\ hist' = hist \o
                       << [line |-> sz, world |-> VAdd(r.m_offset, r.m_pos)],
                          [line |-> sz, world |-> VAdd(r.m_offset, r.pos)] >>
                  /\ UNCHANGED <<meshes, meshHist>>
             [] r.move = "Travel" ->
                  /\ positions' = cm.positions
                  /\ indices' = cm.indices
                  /\ meshes' = cm.meshes
                  /\ hist' = IF cm.positions = <<>> THEN <<>> ELSE hist
                  /\ meshHist' = IF Len(cm.meshes) > Len(meshes)
                                 THEN Append(meshHist, hist) ELSE meshHist
             [] OTHER ->
                  UNCHANGED <<positions, indices, meshes, hist, meshHist>>

\* One iteration of the while loop of ReadGcodeFile on a line that starts
\* with G.
ReadGLine ==
    /\ pc = "reading"
    /\ sz <= Len(buffer)
    /\ buffer[sz].isG
    /\ Move(buffer[sz].g, buffer[sz].v)
    /\ sz' = sz + 1
    /\ UNCHANGED <<buffer, pc, scenes, line>>

\* One iteration of the while loop on any other line: SkipLine.
SkipOtherLine ==
    /\ pc = "reading"
    /\ sz <= Len(buffer)
    /\ ~buffer[sz].isG
    /\ sz' = sz + 1
    /\ trace' = Append(trace, Seen("Skipped"))
    /\ UNCHANGED <<m_absolute, m_pos, m_offset, buffer, positions, indices,
                   meshes, pc, hist, meshHist, scenes, line>>

\* After the while loop: the last CreateMesh, and the scene is filled in.
Finalize ==
    LET cm == CreateMesh(positions, indices, meshes, m_offset)
    IN  /\ positions' = cm.positions
        /\ indices' = cm.indices
        /\ meshes' = cm.meshes
        /\ hist' = IF cm.positions = <<>> THEN <<>> ELSE hist
        /\ meshHist' = IF Len(cm.meshes) > Len(meshes)
                       THEN Append(meshHist, hist) ELSE meshHist
        /\ scenes' = Append(scenes,
               [input |-> buffer, mMeshes |-> cm.meshes,
                m_absolute |-> m_absolute, m_pos |-> m_pos,
                m_offset |-> m_offset,
                moves |-> [i \in 1..Len(trace) |-> trace[i].move]])
        /\ pc' = "done"

\* The end of the buffer.
Finish ==
    /\ pc = "reading"
    /\ sz > Len(buffer)
    /\ Finalize
    /\ UNCHANGED <<m_absolute, m_pos, m_offset, buffer, sz, trace, line>>

ReadFile == pc = "idle" /\ \E buf \in Inputs : InternReadFile(buf)

Next == ReadFile \/ ReadGLine \/ SkipOtherLine \/ Finish

Spec == Init /\ [][Next]_vars

\* ------------------------------------------- the single-command specification

\* Every command the model distinguishes: each code of the switch of
\* ReadGcodeMove and one that is not in it, each of X, Y, Z absent, zero or
\* non-zero, and E absent, negative, zero or positive; and a non-command line.
AxisValues == {NAN, Num(0), Num(2)}

EValues == {NAN, Num(-1), Num(0), Num(1)}

AllLines ==
    { GLine(g, x, y, z, e) :
        g \in {0, 1, 7, 90, 91, 92, 28},
        x \in AxisValues, y \in AxisValues, z \in AxisValues, e \in EValues }
    \cup {OtherLine}

Corners == { Vec(a, b, c) : a \in {0, 1}, b \in {0, 1}, c \in {0, 1} }

\* Four lines that bring a fresh importer to a chosen mode, offset and
\* position without drawing anything: the mode switch, a travel to p, a
\* reset without axes (which folds p into the offset) and a travel to q.
Setup(abs, p, q) ==
    << GLine(IF abs THEN 90 ELSE 91, NAN, NAN, NAN, NAN),
       GLine(0, Num(p.x), Num(p.y), Num(p.z), NAN),
       GLine(92, NAN, NAN, NAN, NAN),
       GLine(0, Num(q.x), Num(q.y), Num(q.z), NAN) >>

\* A setup followed by one command out of AllLines.
MoveInputs ==
    { Append(Setup(abs, p, q), l) :
        abs \in BOOLEAN, p \in Corners, q \in Corners, l \in AllLines }

ReadMoveFile == pc = "idle" /\ \E buf \in MoveInputs : InternReadFile(buf)

NextMove == ReadMoveFile \/ ReadGLine \/ SkipOtherLine \/ Finish

SpecMove == Init /\ [][NextMove]_vars

\* ------------------------------------------------ the scenario specification

\* G90 / G1 X0 Y0 E1 / G1 X10 Y0 E1 / G0 X10 Y10 / G1 X10 Y10 E1 / G1 X20 Y10 E1
TwoStrokesInput ==
    << GLine(90, NAN, NAN, NAN, NAN),
       GLine(1, Num(0), Num(0), NAN, Num(1)),
       GLine(1, Num(10), Num(0), NAN, Num(1)),
       GLine(0, Num(10), Num(10), NAN, NAN),
       GLine(1, Num(10), Num(10), NAN, Num(1)),
       GLine(1, Num(20), Num(10), NAN, Num(1)) >>

RECURSIVE Pick(_, _, _)
\* The lines of s whose index is in I, in order, from index i on.
Pick(s, I, i) ==
    IF i > Len(s) THEN <<>>
    ELSE (IF i \in I THEN <<s[i]>> ELSE <<>>) \o Pick(s, I, i + 1)

SubSeqs(s) == { Pick(s, I, 1) : I \in SUBSET (1..Len(s)) }

\* The lines around a reset at (2,0,0): ways to get there, the mode
\* switches, the reset, the move that follows it, and a non-command line.
ResetLines ==
    { GLine(0, Num(2), NAN, NAN, NAN),         \* G0 X2
      GLine(1, Num(2), NAN, NAN, Num(1)),      \* G1 X2 E1
      GLine(7, Num(2), NAN, NAN, NAN),         \* G7 X2
      GLine(90, NAN, NAN, NAN, NAN),           \* G90
      GLine(91, NAN, NAN, NAN, NAN),           \* G91
      GLine(92, NAN, NAN, NAN, NAN),           \* G92
      GLine(1, Num(5), NAN, NAN, Num(1)),      \* G1 X5 E1
      OtherLine }

ScenarioInputs ==
    SubSeqs(TwoStrokesInput) \cup SeqsUpTo(ResetLines, MaxLines + 1)

ReadScenarioFile ==
    pc = "idle" /\ \E buf \in ScenarioInputs : InternReadFile(buf)

NextScenario == ReadScenarioFile \/ ReadGLine \/ SkipOtherLine \/ Finish

SpecScenario == Init /\ [][NextScenario]_vars

\* ------------------------------------------------- the re-read specification

\* One importer object reads up to MaxParses files, one after the other, as
\* an Assimp::Importer does with the importer objects it keeps.
ReparseLines ==
    { GLine(1, Num(1), NAN, NAN, Num(1)),      \* G1 X1 E1
      GLine(7, NAN, Num(2), NAN, Num(1)),      \* G7 Y2 E1
      GLine(0, Num(2), NAN, NAN, NAN),         \* G0 X2
      GLine(91, NAN, NAN, NAN, NAN),           \* G91
      GLine(92, Num(0), NAN, NAN, NAN),        \* G92 X0
      OtherLine }

ReparseInputs == SeqsUpTo(ReparseLines, MaxLines - 1)

ReadAnotherFile ==
    /\ pc \in {"idle", "done"}
    /\ Len(scenes) < MaxParses
    /\ \E buf \in ReparseInputs : InternReadFile(buf)

NextReparse == ReadAnotherFile \/ ReadGLine \/ SkipOtherLine \/ Finish

SpecReparse == Init /\ [][NextReparse]_vars

\* ----------------------------------------------- the interrupted-run specification

\* Two deposition moves with one command out of AllLines between them, read
\* in absolute or in relative mode.
RunMoves ==
    { GLine(1, Num(1), NAN, NAN, Num(1)),      \* G1 X1 E1
      GLine(7, NAN, Num(2), NAN, Num(1)) }     \* G7 Y2 E1

RunInputs ==
    { pre \o <<d1, l, d2>> :
        pre \in {<<>>, <<GLine(91, NAN, NAN, NAN, NAN)>>},
        d1 \in RunMoves, l \in AllLines, d2 \in RunMoves }

ReadRunFile == pc = "idle" /\ \E buf \in RunInputs : InternReadFile(buf)

NextRun == ReadRunFile \/ ReadGLine \/ SkipOtherLine \/ Finish

SpecRun == Init /\ [][NextRun]_vars

\* ------------------------------------------------------- the text buffer

\* The buffer of the text specifications is the sequence of the characters
\* handed to ReadGcodeFile; TextFileToBuffer ends it with a NUL, which is
\* read at index Len(buf) + 1 (and, to keep a cursor that ran past the
\* terminator observable, at every later index).
NUL == "NUL"

At(buf, i) == IF i \in 1..Len(buf) THEN buf[i] ELSE NUL

Digits == {"0", "1", "2", "3", "4", "5", "6", "7", "8", "9"}

DigitVal(c) ==
    CASE c = "0" -> 0 [] c = "1" -> 1 [] c = "2" -> 2 [] c = "3" -> 3
      [] c = "4" -> 4 [] c = "5" -> 5 [] c = "6" -> 6 [] c = "7" -> 7
      [] c = "8" -> 8 [] c = "9" -> 9

\* The helpers of assimp's ParsingUtils.h, StringUtils.h and fast_atof.h.
IsSpace(c) == c \in {" ", "\t"}

IsLineEnd(c) == c \in {"\r", "\n", "\f", NUL}

IsSpaceOrNewLine(c) == IsSpace(c) \/ IsLineEnd(c)

ToUpper(c) ==
    CASE c = "g" -> "G" [] c = "x" -> "X" [] c = "y" -> "Y"
      [] c = "z" -> "Z" [] c = "e" -> "E" [] OTHER -> c

\* SkipSpaces(&sz): the cursor after the blanks; the code's return value is
\* !IsLineEnd(*sz).
RECURSIVE SkipSpaces(_, _)
SkipSpaces(buf, i) ==
    IF IsSpace(At(buf, i)) THEN SkipSpaces(buf, i + 1) ELSE i

\* SkipSpacesAndLineEnd(&sz): the cursor after blanks and line breaks; the
\* code's return value is *sz != '\0'.
RECURSIVE SkipSpacesAndLineEnd(_, _)
SkipSpacesAndLineEnd(buf, i) ==
    IF IsSpace(At(buf, i)) \/ At(buf, i) \in {"\r", "\n"}
    THEN SkipSpacesAndLineEnd(buf, i + 1)
    ELSE i

RECURSIVE SkipToLineEnd(_, _)
SkipToLineEnd(buf, i) ==
    IF At(buf, i) \in {"\r", "\n", NUL} THEN i ELSE SkipToLineEnd(buf, i + 1)

RECURSIVE SkipLineEnds(_, _)
SkipLineEnds(buf, i) ==
    IF At(buf, i) \in {"\r", "\n"} THEN SkipLineEnds(buf, i + 1) ELSE i

\* SkipLine(&sz): to the end of the line and over its line break.
SkipLine(buf, i) == SkipLineEnds(buf, SkipToLineEnd(buf, i))

RECURSIVE ReadDigits(_, _, _)
ReadDigits(buf, i, acc) ==
    IF At(buf, i) \in Digits
    THEN ReadDigits(buf, i + 1, 10 * acc + DigitVal(At(buf, i)))
    ELSE [value |-> acc, next |-> i]

\* strtoul10(sz, &sz): the decimal digits at the cursor, 0 when there are none.
strtoul10(buf, i) == ReadDigits(buf, i, 0)

\* A numeric literal starts at i (integers only: an optional sign and digits).
IsNumber(buf, i) ==
    \/ At(buf, i) \in Digits
    \/ At(buf, i) \in {"-", "+"} /\ At(buf, i + 1) \in Digits

\* fast_atof(&sz): the number at the cursor and the cursor after it; without
\* digits the value is NaN and the cursor stays.
fast_atof(buf, i) ==
    IF IsNumber(buf, i)
    THEN LET j == IF At(buf, i) \in {"-", "+"} THEN i + 1 ELSE i
             d == ReadDigits(buf, j, 0)
         IN  [value |-> Num(IF At(buf, i) = "-" THEN 0 - d.value ELSE d.value),
              next |-> d.next]
    ELSE [value |-> NAN, next |-> i]

\* -------------------------------------------------------------- ReadGcodeLine

IsComment(c) == c = ";"

RECURSIVE SkipValue(_, _)
\* Mutant of SkipValue: the character that ends the value is consumed too,
\* as by while (!IsSpaceOrNewLine(*sz++)).
SkipValue_PastEnd(buf, i) ==
    IF ~IsSpaceOrNewLine(At(buf, i)) /\ ~IsComment(At(buf, i))
    THEN SkipValue(buf, i + 1)
    ELSE i + 1

\* while (!IsSpaceOrNewLine(*sz) && !IsComment(*sz)) ++sz;
SkipValue(buf, i) ==
    IF ~IsSpaceOrNewLine(At(buf, i)) /\ ~IsComment(At(buf, i))
    THEN SkipValue(buf, i + 1)
    ELSE i

\* The condition of the while of ReadGcodeLine: !comment && SkipSpaces(&sz).
\* SkipSpaces is not called once comment is set.
TagCursor(buf, i, ln) == IF ln.comment THEN i ELSE SkipSpaces(buf, i)

MoreTags(buf, i, ln) == ~ln.comment /\ ~IsLineEnd(At(buf, SkipSpaces(buf, i)))

\* Mutant of TagStep: a tag without a number stores 0, as atof would.
TagStep_ZeroDefault(buf, i, ln) ==
    LET c == ToUpper(At(buf, i))
        r == fast_atof(buf, i + 1)
        n == IF r.value = NAN THEN Num(0) ELSE r.value
        t == Append(ln.tags, [tag |-> c, numeric |-> IsNumber(buf, i + 1)])
    IN  CASE c = "X" ->
               [sz |-> r.next, line |-> [ln EXCEPT !.v.x = n, !.tags = t]]
          [] c = "Y" ->
               [sz |-> r.next, line |-> [ln EXCEPT !.v.y = n, !.tags = t]]
          [] c = "Z" ->
               [sz |-> r.next, line |-> [ln EXCEPT !.v.z = n, !.tags = t]]
          [] c = "E" ->
               [sz |-> r.next, line |-> [ln EXCEPT !.v.e = n, !.tags = t]]
          [] c = ";" ->
               [sz |-> i + 1, line |-> [ln EXCEPT !.comment = TRUE]]
          [] OTHER ->
               [sz |-> SkipValue(buf, i + 1), line |-> ln]

\* The switch (ToUpper(*sz++)) of ReadGcodeLine with the cursor i on the
\* tag: the cursor and the locals after one iteration.
TagStep(buf, i, ln) ==
    LET c == ToUpper(At(buf, i))
        r == fast_atof(buf, i + 1)
        t == Append(ln.tags, [tag |-> c, numeric |-> IsNumber(buf, i + 1)])
    IN  CASE c = "X" ->
               [sz |-> r.next, line |-> [ln EXCEPT !.v.x = r.value, !.tags = t]]
          [] c = "Y" ->
               [sz |-> r.next, line |-> [ln EXCEPT !.v.y = r.value, !.tags = t]]
          [] c = "Z" ->
               [sz |-> r.next, line |-> [ln EXCEPT !.v.z = r.value, !.tags = t]]
          [] c = "E" ->
               [sz |-> r.next, line |-> [ln EXCEPT !.v.e = r.value, !.tags = t]]
          [] c = ";" ->
               [sz |-> i + 1, line |-> [ln EXCEPT !.comment = TRUE]]
          [] OTHER ->
               [sz |-> SkipValue(buf, i + 1), line |-> ln]

\* ----------------------------------------------------------- text actions

\* An iteration of the while loop of ReadGcodeFile that finds G or g:
\* ReadGcodeMove(++sz, pos) reads the code with strtoul10 and enters
\* ReadGcodeLine.
LoopCommand ==
    /\ pc = "reading"
    /\ LET i == SkipSpacesAndLineEnd(buffer, sz)
       IN  /\ At(buffer, i) # NUL
           /\ ToUpper(At(buffer, i)) = "G"
           /\ LET n == strtoul10(buffer, i + 1)
              IN  /\ sz' = n.next
                  /\ line' = [NoLine EXCEPT !.g = n.value]
    /\ pc' = "tags"
    /\ UNCHANGED <<m_absolute, m_pos, m_offset, buffer, positions, indices,
                   meshes, hist, meshHist, trace, scenes>>

\* One iteration of the while loop of ReadGcodeLine.
ReadGcodeLineTag ==
    /\ pc = "tags"
    /\ MoreTags(buffer, sz, line)
    /\ LET r == TagStep(buffer, SkipSpaces(buffer, sz), line)
       IN  /\ sz' = r.sz
           /\ line' = r.line
    /\ UNCHANGED <<m_absolute, m_pos, m_offset, buffer, positions, indices,
                   meshes, pc, hist, meshHist, trace, scenes>>

\* The while loop of ReadGcodeLine ends: the switch of ReadGcodeMove and the
\* rest of the iteration of ReadGcodeFile.
ReadGcodeLineEnd ==
    /\ pc = "tags"
    /\ ~MoreTags(buffer, sz, line)
    /\ sz' = TagCursor(buffer, sz, line)
    /\ Move(line.g, line.v)
    /\ pc' = "reading"
    /\ UNCHANGED <<buffer, scenes, line>>

\* An iteration of the while loop of ReadGcodeFile on any other line.
LoopSkipLine ==
    /\ pc = "reading"
    /\ LET i == SkipSpacesAndLineEnd(buffer, sz)
       IN  /\ At(buffer, i) # NUL
           /\ ToUpper(At(buffer, i)) # "G"
           /\ sz' = SkipLine(buffer, i)
    /\ trace' = Append(trace, Seen("Skipped"))
    /\ UNCHANGED <<m_absolute, m_pos, m_offset, buffer, positions, indices,
                   meshes, pc, hist, meshHist, scenes, line>>

\* SkipSpacesAndLineEnd finds the terminator: the while loop ends.
LoopEnd ==
    /\ pc = "reading"
    /\ At(buffer, SkipSpacesAndLineEnd(buffer, sz)) = NUL
    /\ sz' = SkipSpacesAndLineEnd(buffer, sz)
    /\ Finalize
    /\ UNCHANGED <<m_absolute, m_pos, m_offset, buffer, trace, line>>

\* ------------------------------------------------- the text specification

\* Commands as they are written in a file: a deposition move, a travel move,
\* a mode switch, a reset, commands with a tag that no number follows, a
\* line that is no G command and a command in lower case.
CmdTexts ==
    { <<"G", "1", " ", "X", "1", " ", "E", "1">>,
      <<"G", "0", " ", "X", "2">>,
      <<"G", "9", "1">>,
      <<"G", "9", "2", " ", "X", "0">>,
      <<"G", "1", " ", "X", "A", " ", "E", "1">>,
      <<"G", "0", " ", "X", "A">>,
      <<"G", "1", " ", "X", "1", " ", "E", "A">>,
      <<"M", "1">>,
      <<"g", "7", " ", "y", "2", " ", "e", "1">> }

\* What follows the command on its line: nothing, a comment of plain words,
\* a comment whose text looks like a command.
CommentTexts ==
    { <<>>,
      <<" ", ";", " ", "A">>,
      <<";", "G", "1", " ", "X", "2", " ", "E", "1">> }

TextLines == { c \o k \o <<"\n">> : c \in CmdTexts, k \in CommentTexts }

RECURSIVE TextsUpTo(_)
TextsUpTo(n) ==
    IF n = 0 THEN {<<>>}
    ELSE LET shorter == TextsUpTo(n - 1)
         IN  shorter \cup { t \o l : t \in shorter, l \in TextLines }

TextInputs == TextsUpTo(MaxLines - 1)

\* The text without its comments: every character from a comment marker up
\* to, and not including, the next line break is removed.
RECURSIVE Strip(_, _, _)
Strip(buf, i, inComment) ==
    IF i > Len(buf) THEN <<>>
    ELSE IF buf[i] = "\n" THEN <<"\n">> \o Strip(buf, i + 1, FALSE)
    ELSE IF inComment \/ IsComment(buf[i]) THEN Strip(buf, i + 1, TRUE)
    ELSE <<buf[i]>> \o Strip(buf, i + 1, FALSE)

StripComments(buf) == Strip(buf, 1, FALSE)

ReadTextFile == pc = "idle" /\ \E buf \in TextInputs : InternReadFile(buf)

\* A second, newly constructed importer reads the text of the first read
\* with the comments removed.
ReadStripped ==
    /\ pc = "done"
    /\ Len(scenes) = 1
    /\ m_absolute' = TRUE
    /\ m_pos' = Zero
    /\ m_offset' = Zero
    /\ buffer' = StripComments(scenes[1].input)
    /\ sz' = 1
    /\ positions' = <<>>
    /\ indices' = <<>>
    /\ meshes' = <<>>
    /\ pc' = "reading"
    /\ hist' = <<>>
    /\ meshHist' = <<>>
    /\ trace' = <<>>
    /\ UNCHANGED <<scenes, line>>

NextText ==
    ReadTextFile \/ ReadStripped \/ LoopCommand \/ ReadGcodeLineTag
        \/ ReadGcodeLineEnd \/ LoopSkipLine \/ LoopEnd

SpecText == Init /\ [][NextText]_vars

\* ------------------------------------------------- the scan specification

\* Every text of up to MaxChars characters over ScanChars: the command
\* letter, a digit, two tags of GcodeLine, a letter that is no tag, the
\* comment marker, a blank and a line break.  ReadGcodeFile is one sequential
\* loop that nothing suspends, so a step that can be taken is taken.
ScanChars == {"G", "1", "X", "E", "A", ";", " ", "\n"}

ScanInputs == SeqsUpTo(ScanChars, MaxChars)

ReadScanFile == pc = "idle" /\ \E buf \in ScanInputs : InternReadFile(buf)

NextScan ==
    ReadScanFile \/ LoopCommand \/ ReadGcodeLineTag \/ ReadGcodeLineEnd
        \/ LoopSkipLine \/ LoopEnd

SpecScan == Init /\ [][NextScan]_vars /\ WF_vars(NextScan)

\* ------------------------------------------------------ claims: code 92

\* The while loop is about to read line sz.
Reading == pc = "reading" /\ sz <= Len(buffer)

\* Line sz is a G command with the given code.
AtCode(g) == Reading /\ buffer[sz].isG /\ buffer[sz].g = g

\* C1: a code-92 command, with or without axis values, leaves the head's
\* world position (offset + position, as the next command sees them)
\* unchanged on all three axes.
C1_ResetKeepsWorld ==
    [][ AtCode(92) => VAdd(m_offset', m_pos') = VAdd(m_offset, m_pos) ]_vars

\* C2: after a code-92 command with no X, Y, Z or E the next command sees
\* logical position (0,0,0) and offset = previous offset + previous position.
C2_ResetNoAxes ==
    [][ (AtCode(92) /\ ~HasX(buffer[sz].v) /\ ~HasY(buffer[sz].v)
                    /\ ~HasZ(buffer[sz].v) /\ ~HasE(buffer[sz].v))
        => (m_pos' = Zero /\ m_offset' = VAdd(m_offset, m_pos)) ]_vars

\* C3: after a code-92 command that supplies X, Y or Z the next command sees,
\* on every supplied axis, exactly the supplied value as logical coordinate.
C3_ResetSetsLogical ==
    [][ AtCode(92)
        => /\ HasX(buffer[sz].v) => m_pos'.x = buffer[sz].v.x[1]
           /\ HasY(buffer[sz].v) => m_pos'.y = buffer[sz].v.y[1]
           /\ HasZ(buffer[sz].v) => m_pos'.z = buffer[sz].v.z[1] ]_vars

\* C4: after a code-92 command that supplies Z = v the z offset is the world
\* z before the reset minus v, whatever the y coordinate or a Y on the line.
C4_ResetZOffset ==
    [][ (AtCode(92) /\ HasZ(buffer[sz].v))
        => m_offset'.z = (m_offset.z + m_pos.z) - buffer[sz].v.z[1] ]_vars

\* ------------------------------------------------ claims: classification

\* What C10 says of the fields v of a code 0, 1 or 7 command.
ClassOf(v) ==
    IF v.e # NAN /\ v.e[1] > 0 THEN "Extrusion"
    ELSE IF v.x # NAN \/ v.y # NAN \/ v.z # NAN THEN "Travel"
    ELSE "None"

\* C10: a code 0, 1 or 7 command is a deposition iff E is present and > 0,
\* otherwise a travel iff one of X, Y, Z is present, otherwise a no-op.
C10_Classification ==
    \A i \in 1..Len(trace) :
        (buffer[i].isG /\ buffer[i].g \in {0, 1, 7})
            => trace[i].move = ClassOf(buffer[i].v)

\* A code-7 command with E = 0 and only Z present has been read as a travel,
\* in relative mode, away from the origin.
C10_Witness ==
    /\ pc = "done"
    /\ buffer[Len(buffer)] = GLine(7, NAN, NAN, Num(2), Num(0))
    /\ trace[Len(buffer)].move = "Travel"
    /\ ~trace[Len(buffer)].m_absolute
    /\ trace[Len(buffer)].m_pos # Zero

\* ------------------------------------------------------ claims: strokes

\* C5: every vertex of every emitted stroke is the head's world position
\* (offset + position, with the offset in force when the deposition move was
\* read) at the start or the end of the move that produced it.
C5_VerticesAreWorld ==
    \A k \in 1..Len(meshes) :
        /\ Len(meshes[k].mVertices) = Len(meshHist[k])
        /\ \A i \in 1..Len(meshHist[k]) :
               meshes[k].mVertices[i] = meshHist[k][i].world

\* The lines read that were classified as deposition moves.
Extrusions == { i \in 1..Len(trace) : trace[i].move = "Extrusion" }

\* The whole input has been read, it holds at least one deposition move and
\* no travel move lies between two of its deposition moves.
OneRun ==
    /\ pc = "done"
    /\ Extrusions # {}
    /\ \A i \in Extrusions, j \in Extrusions :
           \A t \in i..j : trace[t].move # "Travel"

\* C6 as stated: N deposition moves with no travel in between yield one
\* stroke of N segments and N + 1 points with index pairs (0,1),(1,2),...
C6_Polyline ==
    OneRun =>
        /\ Len(meshes) = 1
        /\ Len(meshes[1].mVertices) = Cardinality(Extrusions) + 1
        /\ Len(meshes[1].mFaces) = Cardinality(Extrusions)
        /\ \A i \in 1..Len(meshes[1].mFaces) :
               meshes[1].mFaces[i] = <<i - 1, i>>

\* C6 as amended: N deposition moves with no travel in between yield one
\* stroke of N segments and 2N points with index pairs (0,1),(2,3),...,
\* (2N-2,2N-1): every move contributes its start point and its end point.
C6_Segments ==
    OneRun =>
        /\ Len(meshes) = 1
        /\ Len(meshes[1].mVertices) = 2 * Cardinality(Extrusions)
        /\ Len(meshes[1].mFaces) = Cardinality(Extrusions)
        /\ \A i \in 1..Len(meshes[1].mFaces) :
               meshes[1].mFaces[i] = <<2 * i - 2, 2 * i - 1>>

\* Three deposition moves in a row have been read to the end.
C6_Witness ==
    /\ OneRun
    /\ Cardinality(Extrusions) = 3
    /\ Len(meshes) = 1

\* The deposition moves that open a run: a travel move lies between each
\* earlier deposition move and them.
RunStarts ==
    { i \in Extrusions :
        \A j \in Extrusions :
            j < i => \E t \in j..i : trace[t].move = "Travel" }

\* C7: a travel move between two deposition moves separates their strokes:
\* there is one stroke for each run of deposition moves, no stroke holds
\* points of deposition moves from both sides of a travel move, and every
\* deposition move's points are in some stroke.
C7_TravelSplits ==
    pc = "done" =>
        /\ Len(meshes) = Cardinality(RunStarts)
        /\ Len(meshHist) = Len(meshes)
        /\ \A k \in 1..Len(meshes) :
               Len(meshes[k].mVertices) = Len(meshHist[k])
        /\ \A t \in 1..Len(trace) :
               trace[t].move = "Travel" =>
                   \A k \in 1..Len(meshHist) :
                       \A a \in 1..Len(meshHist[k]), b \in 1..Len(meshHist[k]) :
                           ~(meshHist[k][a].line < t /\ t < meshHist[k][b].line)
        /\ \A i \in Extrusions :
               \E k \in 1..Len(meshHist) :
                   \E a \in 1..Len(meshHist[k]) : meshHist[k][a].line = i

\* A deposition move, a travel move and a deposition move have been read,
\* and two strokes were emitted.
C7_Witness ==
    /\ pc = "done"
    /\ Len(trace) = 3
    /\ trace[1].move = "Extrusion"
    /\ trace[2].move = "Travel"
    /\ trace[3].move = "Extrusion"
    /\ Len(meshes) = 2

\* ---------------------------------------------------- claims: scenarios

\* The points and the segments of stroke k.
Points(k) == meshes[k].mVertices

Segments(k) == meshes[k].mFaces

\* C8 as stated: the six lines yield two strokes of two points and one
\* segment each, (0,0,0)-(10,0,0) and (10,10,0)-(20,10,0).
C8_TwoPointStrokes ==
    (pc = "done" /\ buffer = TwoStrokesInput) =>
        /\ Len(meshes) = 2
        /\ Points(1) = <<Vec(0, 0, 0), Vec(10, 0, 0)>>
        /\ Len(Segments(1)) = 1
        /\ Points(2) = <<Vec(10, 10, 0), Vec(20, 10, 0)>>
        /\ Len(Segments(2)) = 1

\* C8 as amended: the six lines yield two strokes of four points and two
\* segments each; the first move of each run starts where it ends, so each
\* stroke opens with a segment of length zero.
C8_TwoStrokes ==
    (pc = "done" /\ buffer = TwoStrokesInput) =>
        /\ Len(meshes) = 2
        /\ Points(1) = <<Vec(0, 0, 0), Vec(0, 0, 0), Vec(0, 0, 0), Vec(10, 0, 0)>>
        /\ Segments(1) = << <<0, 1>>, <<2, 3>> >>
        /\ Points(2) = <<Vec(10, 10, 0), Vec(10, 10, 0),
                         Vec(10, 10, 0), Vec(20, 10, 0)>>
        /\ Segments(2) = << <<0, 1>>, <<2, 3>> >>

\* The six lines have been read to the end.
C8_Witness ==
    /\ pc = "done"
    /\ buffer = TwoStrokesInput
    /\ Len(meshes) = 2

\* The input ends with G92, G1 X5 E1, and G92 was read in absolute mode with
\* zero offset at (2,0,0).
ResetAtTwo ==
    /\ pc = "done"
    /\ Len(buffer) >= 2
    /\ buffer[Len(buffer) - 1] = GLine(92, NAN, NAN, NAN, NAN)
    /\ buffer[Len(buffer)] = GLine(1, Num(5), NAN, NAN, Num(1))
    /\ trace[Len(buffer) - 1].m_absolute
    /\ trace[Len(buffer) - 1].m_offset = Zero
    /\ trace[Len(buffer) - 1].m_pos = Vec(2, 0, 0)

\* C9: from (2,0,0) in absolute mode with zero offset, G92 then G1 X5 E1
\* put the end point of the deposition segment at world position (7,0,0).
C9_ResetThenMove ==
    ResetAtTwo =>
        /\ meshes # <<>>
        /\ Points(Len(meshes))[Len(Points(Len(meshes)))] = Vec(7, 0, 0)

\* The scenario has happened, with (2,0,0) reached by a deposition move.
C9_Witness ==
    /\ ResetAtTwo
    /\ \E i \in 1..(Len(buffer) - 2) : trace[i].move = "Extrusion"

\* --------------------------------------------------- claims: positions

\* The members the command after line i sees (line i of a tokenised buffer).
After(i) ==
    IF i < Len(trace) THEN trace[i + 1]
    ELSE [move |-> "None", m_absolute |-> m_absolute, m_pos |-> m_pos,
          m_offset |-> m_offset]

\* What C11 says of one coordinate: in absolute mode under code 0 or 1 a
\* present value replaces and an absent one keeps; otherwise a present value
\* is added and an absent one adds zero.
MovedCoord(replace, field, old) ==
    IF replace THEN (IF field # NAN THEN field[1] ELSE old)
    ELSE old + (IF field # NAN THEN field[1] ELSE 0)

\* C11: code 0 or 1 in absolute mode replaces the present axes and keeps the
\* absent ones; code 7, and code 0 or 1 in relative mode, add the present
\* axes to the prior logical position.
C11_MoveSemantics ==
    \A i \in 1..Len(trace) :
        (buffer[i].isG /\ buffer[i].g \in {0, 1, 7}) =>
            LET replace == buffer[i].g \in {0, 1} /\ trace[i].m_absolute
                v       == buffer[i].v
                old     == trace[i].m_pos
            IN  After(i).m_pos = Vec(MovedCoord(replace, v.x, old.x),
                                     MovedCoord(replace, v.y, old.y),
                                     MovedCoord(replace, v.z, old.z))

\* G1 Y2 has been read in absolute mode at (1,1,1): y was replaced, x and z
\* were kept.
C11_Witness ==
    /\ pc = "done"
    /\ buffer[Len(buffer)] = GLine(1, NAN, Num(2), NAN, NAN)
    /\ trace[Len(buffer)].m_absolute
    /\ trace[Len(buffer)].m_pos = Vec(1, 1, 1)
    /\ m_pos = Vec(1, 2, 1)

\* C19: a code-92 command that supplies some of X, Y, Z, E leaves the
\* logical coordinate and the offset of every axis it does not supply
\* unchanged; with E only, nothing changes.
C19_ResetOtherAxes ==
    \A i \in 1..Len(trace) :
        (buffer[i].isG /\ buffer[i].g = 92
           /\ (buffer[i].v.x # NAN \/ buffer[i].v.y # NAN
                 \/ buffer[i].v.z # NAN \/ buffer[i].v.e # NAN)) =>
            /\ buffer[i].v.x = NAN =>
                   /\ After(i).m_pos.x = trace[i].m_pos.x
                   /\ After(i).m_offset.x = trace[i].m_offset.x
            /\ buffer[i].v.y = NAN =>
                   /\ After(i).m_pos.y = trace[i].m_pos.y
                   /\ After(i).m_offset.y = trace[i].m_offset.y
            /\ buffer[i].v.z = NAN =>
                   /\ After(i).m_pos.z = trace[i].m_pos.z
                   /\ After(i).m_offset.z = trace[i].m_offset.z

\* G92 E0 has been read away from the origin with a non-zero offset.
C19_Witness ==
    /\ pc = "done"
    /\ buffer[Len(buffer)] = GLine(92, NAN, NAN, NAN, Num(0))
    /\ trace[Len(buffer)].m_pos = Vec(1, 0, 1)
    /\ trace[Len(buffer)].m_offset = Vec(0, 1, 1)
    /\ m_pos = Vec(1, 0, 1)
    /\ m_offset = Vec(0, 1, 1)

\* ----------------------------------------------------- claims: no-ops

\* The members are the same before and after line i.
SameMembers(i) ==
    /\ After(i).m_absolute = trace[i].m_absolute
    /\ After(i).m_pos = trace[i].m_pos
    /\ After(i).m_offset = trace[i].m_offset

\* The stroke buffers hold what the deposition moves read so far put there
\* and nothing else: no stroke was emitted before the end of the input, and
\* every deposition move accounts for two points and one index pair.
OnlyExtrusionsDrew ==
    /\ pc = "reading" =>
           /\ meshes = <<>>
           /\ Len(positions) = 2 * Cardinality(Extrusions)
           /\ Len(indices) = 2 * Cardinality(Extrusions)
    /\ (pc = "done" /\ Extrusions = {}) => meshes = <<>>
    /\ (pc = "done" /\ Extrusions # {}) =>
           /\ Len(meshes) = 1
           /\ Len(meshes[1].mVertices) = 2 * Cardinality(Extrusions)
           /\ Len(meshes[1].mFaces) = Cardinality(Extrusions)

\* Line i is a G command with code 90, 91 or 92.
IsModeOrReset(i) == buffer[i].isG /\ buffer[i].g \in {90, 91, 92}

\* C12: codes 90, 91 and 92, whatever their fields, are classified as no-ops,
\* emit no stroke and add no point and no index pair, so a run of deposition
\* moves interrupted only by them ends up in one stroke; 90 and 91 set the
\* mode and leave position and offset unchanged.
C12_ModeAndResetAreNoOps ==
    /\ \A i \in 1..Len(trace) :
           IsModeOrReset(i) =>
               /\ trace[i].move = "None"
               /\ buffer[i].g = 90 =>
                      /\ After(i).m_absolute
                      /\ After(i).m_pos = trace[i].m_pos
                      /\ After(i).m_offset = trace[i].m_offset
               /\ buffer[i].g = 91 =>
                      /\ ~After(i).m_absolute
                      /\ After(i).m_pos = trace[i].m_pos
                      /\ After(i).m_offset = trace[i].m_offset
    /\ (\A i \in 1..Len(trace) : i \in Extrusions \/ IsModeOrReset(i))
           => OnlyExtrusionsDrew

\* A deposition move, G92 X2 E1 and a deposition move have been read to the
\* end and make one stroke.
C12_Witness ==
    /\ pc = "done"
    /\ Len(buffer) = 3
    /\ buffer[2] = GLine(92, Num(2), NAN, NAN, Num(1))
    /\ Cardinality(Extrusions) = 2
    /\ Len(meshes) = 1

\* Line i is no command, or a G command with a code the switch does not know.
IsUnrecognized(i) ==
    ~buffer[i].isG \/ buffer[i].g \notin {0, 1, 7, 90, 91, 92}

\* C18: a line that is no G command and a G command with an unknown code,
\* whatever its fields, leave mode, position, offset and the stroke buffers
\* unchanged and emit no stroke; the lines after them are read as usual.
C18_UnrecognizedIsNoOp ==
    /\ \A i \in 1..Len(trace) :
           IsUnrecognized(i) =>
               /\ trace[i].move \in {"None", "Skipped"}
               /\ SameMembers(i)
    /\ (\A i \in 1..Len(trace) : i \in Extrusions \/ IsUnrecognized(i))
           => OnlyExtrusionsDrew
    /\ pc = "done" => Len(trace) = Len(buffer)

\* A deposition move, G28 with X, Y, Z and E > 0 and a deposition move have
\* been read to the end, in relative mode, and make one stroke.
C18_Witness ==
    /\ pc = "done"
    /\ Len(buffer) = 4
    /\ buffer[3] = GLine(28, Num(2), Num(2), Num(2), Num(1))
    /\ Cardinality(Extrusions) = 2
    /\ Len(meshes) = 1
    /\ ~m_absolute

\* --------------------------------------------------- claims: stroke shape

\* C16: no emitted stroke is empty: each has at least one segment and two
\* points; a travel move that finds the accumulation empty, as the second of
\* two travel moves in a row does, emits nothing, so there are never more
\* strokes than runs of deposition moves; an input with no deposition move,
\* the empty input included, yields no stroke.
C16_NoEmptyStroke ==
    /\ \A k \in 1..Len(meshes) :
           /\ Len(meshes[k].mFaces) >= 1
           /\ Len(meshes[k].mVertices) >= 2
    /\ Len(meshes) <= Cardinality(RunStarts)
    /\ (pc = "done" /\ Extrusions = {}) => meshes = <<>>

\* A deposition move followed by two travel moves has been read to the end:
\* one stroke.
C16_Witness ==
    /\ pc = "done"
    /\ Len(trace) = 3
    /\ trace[1].move = "Extrusion"
    /\ trace[2].move = "Travel"
    /\ trace[3].move = "Travel"
    /\ Len(meshes) = 1

\* C17: the index buffer has even length, every index of a stroke refers to
\* a point of that stroke, and the end point of each segment has the
\* coordinates of the start point of the next segment of the same stroke,
\* whatever no-op commands were read between the two deposition moves.
C17_ConnectedPath ==
    /\ Len(indices) % 2 = 0
    /\ \A k \in 1..Len(meshes) :
           /\ 2 * Len(Segments(k)) = Len(Points(k))
           /\ \A i \in 1..Len(Segments(k)) :
                  /\ Segments(k)[i][1] \in 0..(Len(Points(k)) - 1)
                  /\ Segments(k)[i][2] \in 0..(Len(Points(k)) - 1)
           /\ \A i \in 1..(Len(Segments(k)) - 1) :
                  Points(k)[Segments(k)[i][2] + 1]
                      = Points(k)[Segments(k)[i + 1][1] + 1]

\* Two deposition moves with G92 Y1 Z2 between them have been read to the
\* end and make one stroke of two segments.
C17_Witness ==
    /\ pc = "done"
    /\ Len(buffer) = 3
    /\ buffer[2] = GLine(92, NAN, Num(1), Num(2), NAN)
    /\ Cardinality(Extrusions) = 2
    /\ Len(meshes) = 1
    /\ Len(Segments(1)) = 2

\* ------------------------------------------------------ claims: re-reading

\* C15 as stated: every parse starts with m_absolute = true, m_pos = origin
\* and m_offset = zero, also when one importer reads one input after
\* another, and reading the same input again gives the same strokes.
C15_FreshContext ==
    /\ (pc = "reading" /\ sz = 1) =>
           /\ m_absolute
           /\ m_pos = Zero
           /\ m_offset = Zero
    /\ \A a \in 1..Len(scenes), b \in 1..Len(scenes) :
           scenes[a].input = scenes[b].input
               => scenes[a].mMeshes = scenes[b].mMeshes

\* ------------------------------------------------------ claims: the tokenizer

\* The classifications of the commands of a parse, in order, without the
\* entries of the lines that SkipLine passed over.
Commands(moves) == SelectSeq(moves, LAMBDA m : m # "Skipped")

\* C13 as stated: the text from a comment marker to the end of its line is
\* ignored whatever it contains: the mode, position and offset left by the
\* parse, the classifications of its commands and the strokes are those of
\* the same text with the comments removed.
C13_CommentsIgnored ==
    Len(scenes) = 2 =>
        /\ scenes[2].input = StripComments(scenes[1].input)
        /\ scenes[1].m_absolute = scenes[2].m_absolute
        /\ scenes[1].m_pos = scenes[2].m_pos
        /\ scenes[1].m_offset = scenes[2].m_offset
        /\ Commands(scenes[1].moves) = Commands(scenes[2].moves)
        /\ scenes[1].mMeshes = scenes[2].mMeshes

\* Tag t was read on the line, and no number followed it.
Malformed(ln, t) ==
    /\ \E k \in 1..Len(ln.tags) : ln.tags[k].tag = t
    /\ \A k \in 1..Len(ln.tags) : ln.tags[k].tag = t => ~ln.tags[k].numeric

\* Tag t was read on the line with a number.
WellFormed(ln, t) ==
    \E k \in 1..Len(ln.tags) : ln.tags[k].tag = t /\ ln.tags[k].numeric

\* The classification of a move that counts only the tags with a number.
ClassOfWellFormed(ln) ==
    IF WellFormed(ln, "E") /\ ln.v.e # NAN /\ ln.v.e[1] > 0 THEN "Extrusion"
    ELSE IF WellFormed(ln, "X") \/ WellFormed(ln, "Y") \/ WellFormed(ln, "Z")
         THEN "Travel"
    ELSE "None"

\* C14: an axis tag that no numeric literal follows is an absent axis, not
\* a zero: its field stays NaN, a move leaves that coordinate at its prior
\* value, the move is classified as if the tag were not there, and the parse
\* goes on to the end of the text.
C14_MalformedIsAbsent ==
    /\ \A i \in 1..Len(trace) :
           LET ln == trace[i].line
               isMove == ln.g \in {0, 1, 7}
           IN  trace[i].move # "Skipped" =>
                   /\ Malformed(ln, "X") =>
                          /\ ln.v.x = NAN
                          /\ isMove => After(i).m_pos.x = trace[i].m_pos.x
                   /\ Malformed(ln, "Y") =>
                          /\ ln.v.y = NAN
                          /\ isMove => After(i).m_pos.y = trace[i].m_pos.y
                   /\ Malformed(ln, "Z") =>
                          /\ ln.v.z = NAN
                          /\ isMove => After(i).m_pos.z = trace[i].m_pos.z
                   /\ Malformed(ln, "E") => ln.v.e = NAN
                   /\ (isMove /\ \E t \in {"X", "Y", "Z", "E"} : Malformed(ln, t))
                          => trace[i].move = ClassOfWellFormed(ln)
    /\ pc = "done" => sz = Len(buffer) + 1

\* "G0 X2" and then "G1 XA E1" have been read to the end: the second line
\* is a deposition move that stays at x = 2.
C14_Witness ==
    /\ pc = "done"
    /\ buffer = <<"G", "0", " ", "X", "2", "\n",
                  "G", "1", " ", "X", "A", " ", "E", "1", "\n">>
    /\ Len(trace) = 2
    /\ trace[2].move = "Extrusion"
    /\ Malformed(trace[2].line, "X")
    /\ m_pos = Vec(2, 0, 0)
    /\ Len(meshes) = 1

\* ------------------------------------------------------ claims: termination

\* C20: the parse terminates on every finite NUL-terminated input: the
\* cursor never moves past the terminator, every iteration of the main loop
\* (on a command or on another line) and every iteration of the tag loop
\* moves it forward by at least one character, no step of a parse moves it
\* back, and the end-of-stream finalization is eventually reached.
C20_Terminates ==
    /\ [](sz \in 1..(Len(buffer) + 1))
    /\ [][(LoopCommand \/ LoopSkipLine \/ ReadGcodeLineTag) => sz' > sz]_vars
    /\ [][(ReadGcodeLineEnd \/ LoopEnd) => sz' >= sz]_vars
    /\ <>(pc = "done")

\* The text "G1A;" has been read to the end: the tag loop skipped the value
\* of an unknown tag and stopped at the comment marker, and the cursor is on
\* the terminator.
C20_Witness ==
    /\ pc = "done"
    /\ buffer = <<"G", "1", "A", ";">>
    /\ sz = Len(buffer) + 1
    /\ Len(trace) = 1

====
